---- MODULE Spec2Model ----
(***************************************************************************)
(* Model of the backtesting engine of src/src/backtesting.py               *)
(* (BacktestEngine: position ledger, per-day state machine, run loop),     *)
(* of the scoring of src/src/analyzer.py (StockAnalyzer.calculate_score)   *)
(* and of the threads of src/src/realtime_monitor.py (RealtimeMonitor).    *)
(*                                                                         *)
(* Units.  The source computes in floating point; the model computes the   *)
(* same expressions in exact arithmetic:                                   *)
(*   - quoted prices are whole yen;                                        *)
(*   - rates (commission, slippage, stop_loss, take_profit, position_size) *)
(*     are whole percents, rate = n/100;                                   *)
(*   - money (capital, position_value, pnl, commission_paid,               *)
(*     slippage_cost, total_value) and the slipped prices entry_price and  *)
(*     exit_price are in sen (1/100 yen).  As shares is always a multiple  *)
(*     of 100, every product below is a whole number of sen.               *)
(*   - dates are day numbers; day 0 is a Monday.                           *)
(* pnl_percentage (= pnl / position_value * 100) is a quotient of two      *)
(* stored fields and is not stored separately.                             *)
(*                                                                         *)
(* Market data.  get_historical_data(symbol) fetches the whole frame of a  *)
(* symbol, from 100 days before start_date to end_date, anew at every      *)
(* call; the callers cut it with df[df.index <= date].  The model keeps    *)
(* one cell per symbol and business day of the range: a bar (its close and *)
(* what screening makes of the history that ends with it), no bar, or a    *)
(* fetch that fails on that day.  Prices are positive, so that no step of  *)
(* process_day raises.                                                     *)
(***************************************************************************)
EXTENDS Integers, Sequences, FiniteSets, TLC

VARIABLES
    config,          \* BacktestConfig of the engine
    capital,         \* self.capital
    open_positions,  \* self.open_positions: dict symbol -> Trade, in insertion order
    trades,          \* self.trades: closed Trades, in closing order
    daily_equity,    \* self.daily_equity: list of snapshots
    date,            \* the day run() is at
    pc,              \* where run()/process_day() stands
    market,          \* what get_historical_data yields at `date': last close per symbol, or NoData
    calls,           \* ledger calls made since the current process_day (or direct call) began
    df,              \* the market: per symbol, one cell per business day of the range
    run_results,     \* the BacktestResults run() has returned so far
    stock_data,      \* StockAnalyzer: the stock_data calculate_score is called with
    scoring_weights, \* StockAnalyzer.scoring_weights
    score_result,    \* StockAnalyzer: what calculate_score has returned (none or one result)
    is_running,      \* RealtimeMonitor.is_running
    threads,         \* RealtimeMonitor.threads: the Thread objects appended and not cleared
    thread_pc,       \* where every Thread that start_monitoring can create stands
    monitor_pc,      \* where the caller of start_monitoring / stop_monitoring stands
    start_calls      \* the calls of start_monitoring made so far

engine_vars == <<config, capital, open_positions, trades, daily_equity, date, pc, market, calls, df, run_results>>

analyzer_vars == <<stock_data, scoring_weights, score_result>>

monitor_vars == <<is_running, threads, thread_pc, monitor_pc, start_calls>>

vars == <<config, capital, open_positions, trades, daily_equity, date, pc, market, calls, df, run_results, stock_data, scoring_weights, score_result, is_running, threads, thread_pc, monitor_pc, start_calls>>

ledger_vars == <<capital, open_positions, trades, daily_equity>>

----------------------------------------------------------------------------
(* Bounds of the model *)

MaxDays == 2          \* run() covers at most MaxDays business days
MaxRuns == 2          \* run() is called at most MaxRuns times on one engine
MaxTrades == 2        \* calculate_results alone: trade histories of at most MaxTrades
MaxSnapshots == 3     \* calculate_results alone: equity series of at most MaxSnapshots
MaxNews == 2          \* calculate_score: news lists of at most MaxNews items
MaxStarts == 2        \* start_monitoring is called at most MaxStarts times

----------------------------------------------------------------------------
(* Inputs *)

universe == <<"B", "A", "C">>
Symbols == {universe[i] : i \in DOMAIN universe}
Prices == {1000, 1090}
NoData == -1
NoDate == -1
LotSize == 100
EntryThreshold == 70

IsBusinessDay(d) == d % 7 < 5

\* the n-th business day from day sd on
NthBusinessDay(sd, n) ==
    CHOOSE e \in sd..(sd + 2 * n + 7) :
        /\ IsBusinessDay(e)
        /\ Cardinality({d \in sd..e : IsBusinessDay(d)}) = n

BacktestConfig(sd, ic, mp, sl, hp) ==
    [ start_date           |-> sd,
      end_date             |-> NthBusinessDay(sd, MaxDays),
      initial_capital      |-> ic,
      max_positions        |-> mp,
      position_size        |-> 20,
      commission           |-> 1,
      slippage             |-> sl,
      stop_loss            |-> 3,
      take_profit          |-> 5,
      holding_period_limit |-> hp ]

\* the configurations explored: (start day, capital in sen, max_positions,
\* slippage %, holding_period_limit)
Configs ==
    { BacktestConfig(0, 25000000, 2, 1, 1),
      BacktestConfig(0, 10500000, 2, 1, 5),
      BacktestConfig(4, 25000000, 1, 0, 3),
      BacktestConfig(0,   100000, 1, 1, 5) }

----------------------------------------------------------------------------
(* Trade and the open_positions dict *)

Trade(symbol, entry_date, entry_price, shares, position_value, signals, score, commission_paid, slippage_cost) ==
    [ symbol          |-> symbol,
      entry_date      |-> entry_date,
      exit_date       |-> NoDate,
      entry_price     |-> entry_price,
      exit_price      |-> 0,
      shares          |-> shares,
      position_value  |-> position_value,
      pnl             |-> 0,
      exit_reason     |-> "",
      signals         |-> signals,
      score           |-> score,
      commission_paid |-> commission_paid,
      slippage_cost   |-> slippage_cost ]

HasKey(d, symbol) == \E i \in 1..Len(d) : d[i].symbol = symbol

Get(d, symbol) == d[CHOOSE i \in 1..Len(d) : d[i].symbol = symbol]

\* d[symbol] = t : replaces the value of an existing key in place, appends a new key
DictSet(d, symbol, t) ==
    IF HasKey(d, symbol)
    THEN [i \in 1..Len(d) |-> IF d[i].symbol = symbol THEN t ELSE d[i]]
    ELSE Append(d, t)

\* del d[symbol]
DictDel(d, symbol) == SelectSeq(d, LAMBDA t : t.symbol # symbol)

Ledger == [capital |-> capital, open_positions |-> open_positions, trades |-> trades]

----------------------------------------------------------------------------
(* The position ledger: can_open_position, calculate_position_size,        *)
(* open_position, close_position                                           *)

\* mutant: the capacity test lets one position too many in
can_open_position_le(L) == Len(L.open_positions) <= config.max_positions

can_open_position(L) == Len(L.open_positions) < config.max_positions

calculate_position_size(L, price) ==
    LET \* int(capital * position_size / price / 100) * 100
        shares == ((L.capital * config.position_size) \div (100 * 100 * price * 100)) * LotSize
    IN  IF shares > LotSize THEN shares ELSE LotSize

\* mutant: no test for a position already open in the symbol
open_position_no_symbol_test(L, symbol, d, price, signals, score) ==
    IF ~can_open_position(L) THEN [ok |-> FALSE, L |-> L]
    ELSE
      LET shares         == calculate_position_size(L, price)
          adjusted_price == price * (100 + config.slippage)
          position_value == adjusted_price * shares
          commission     == (position_value * config.commission) \div 100
      IN
      IF position_value + commission > L.capital THEN [ok |-> FALSE, L |-> L]
      ELSE
        LET trade == Trade(symbol, d, adjusted_price, shares, position_value,
                           signals, score, commission,
                           price * shares * config.slippage)
        IN [ok |-> TRUE,
            L  |-> [L EXCEPT !.open_positions = DictSet(@, symbol, trade),
                             !.capital = @ - (position_value + commission)]]

\* mutant: no test of the entry cost against the cash
open_position_no_cash_test(L, symbol, d, price, signals, score) ==
    IF ~can_open_position(L) THEN [ok |-> FALSE, L |-> L]
    ELSE IF HasKey(L.open_positions, symbol) THEN [ok |-> FALSE, L |-> L]
    ELSE
      LET shares         == calculate_position_size(L, price)
          adjusted_price == price * (100 + config.slippage)
          position_value == adjusted_price * shares
          commission     == (position_value * config.commission) \div 100
          trade == Trade(symbol, d, adjusted_price, shares, position_value,
                         signals, score, commission,
                         price * shares * config.slippage)
      IN [ok |-> TRUE,
          L  |-> [L EXCEPT !.open_positions = DictSet(@, symbol, trade),
                           !.capital = @ - (position_value + commission)]]

\* mutant: the cash is debited before the entry cost is tested against it
open_position_debit_first(L, symbol, d, price, signals, score) ==
    IF ~can_open_position(L) THEN [ok |-> FALSE, L |-> L]
    ELSE IF HasKey(L.open_positions, symbol) THEN [ok |-> FALSE, L |-> L]
    ELSE
      LET shares         == calculate_position_size(L, price)
          adjusted_price == price * (100 + config.slippage)
          position_value == adjusted_price * shares
          commission     == (position_value * config.commission) \div 100
          trade == Trade(symbol, d, adjusted_price, shares, position_value,
                         signals, score, commission,
                         price * shares * config.slippage)
          debited == [L EXCEPT !.capital = @ - (position_value + commission)]
      IN IF debited.capital < 0 THEN [ok |-> FALSE, L |-> debited]
         ELSE [ok |-> TRUE,
               L  |-> [debited EXCEPT !.open_positions = DictSet(@, symbol, trade)]]

\* mutant: the entry commission is recorded but not debited
open_position_commission_not_debited(L, symbol, d, price, signals, score) ==
    IF ~can_open_position(L) THEN [ok |-> FALSE, L |-> L]
    ELSE IF HasKey(L.open_positions, symbol) THEN [ok |-> FALSE, L |-> L]
    ELSE
      LET shares         == calculate_position_size(L, price)
          adjusted_price == price * (100 + config.slippage)
          position_value == adjusted_price * shares
          commission     == (position_value * config.commission) \div 100
      IN
      IF position_value + commission > L.capital THEN [ok |-> FALSE, L |-> L]
      ELSE
        LET trade == Trade(symbol, d, adjusted_price, shares, position_value,
                           signals, score, commission,
                           price * shares * config.slippage)
        IN [ok |-> TRUE,
            L  |-> [L EXCEPT !.open_positions = DictSet(@, symbol, trade),
                             !.capital = @ - position_value]]

\* mutant: the Trade is dated the day after the call
open_position_dated_next_day(L, symbol, d, price, signals, score) ==
    IF ~can_open_position(L) THEN [ok |-> FALSE, L |-> L]
    ELSE IF HasKey(L.open_positions, symbol) THEN [ok |-> FALSE, L |-> L]
    ELSE
      LET shares         == calculate_position_size(L, price)
          adjusted_price == price * (100 + config.slippage)
          position_value == adjusted_price * shares
          commission     == (position_value * config.commission) \div 100
      IN
      IF position_value + commission > L.capital THEN [ok |-> FALSE, L |-> L]
      ELSE
        LET trade == Trade(symbol, d + 1, adjusted_price, shares, position_value,
                           signals, score, commission,
                           price * shares * config.slippage)
        IN [ok |-> TRUE,
            L  |-> [L EXCEPT !.open_positions = DictSet(@, symbol, trade),
                             !.capital = @ - (position_value + commission)]]

\* returns [ok |-> the bool returned, L |-> the ledger afterwards]
open_position(L, symbol, d, price, signals, score) ==
    IF ~can_open_position(L) THEN [ok |-> FALSE, L |-> L]
    ELSE IF HasKey(L.open_positions, symbol) THEN [ok |-> FALSE, L |-> L]
    ELSE
      LET shares == calculate_position_size(L, price) IN
      IF shares = 0 THEN [ok |-> FALSE, L |-> L]
      ELSE
        LET adjusted_price == price * (100 + config.slippage)
            position_value == adjusted_price * shares
            commission     == (position_value * config.commission) \div 100
        IN
        IF position_value + commission > L.capital THEN [ok |-> FALSE, L |-> L]
        ELSE
          LET trade == Trade(symbol, d, adjusted_price, shares, position_value,
                             signals, score, commission,
                             price * shares * config.slippage)
          IN [ok |-> TRUE,
              L  |-> [L EXCEPT !.open_positions = DictSet(@, symbol, trade),
                               !.capital = @ - (position_value + commission)]]

\* the body of close_position, with its variations: slip is the factor applied to
\* the quoted price, twice whether pnl is computed after commission_paid was
\* increased, credit_commission whether the cash credit deducts the commission
close_position_variant(L, symbol, d, price, reason, slip, twice, credit_commission) ==
    IF ~HasKey(L.open_positions, symbol) THEN L
    ELSE
      LET trade          == Get(L.open_positions, symbol)
          adjusted_price == price * slip
          exit_value     == adjusted_price * trade.shares
          commission     == (exit_value * config.commission) \div 100
          paid_before    == IF twice THEN trade.commission_paid + commission
                            ELSE trade.commission_paid
          closed == [trade EXCEPT
                       !.exit_date       = d,
                       !.exit_price      = adjusted_price,
                       !.pnl             = exit_value - trade.position_value
                                             - commission - paid_before,
                       !.exit_reason     = reason,
                       !.commission_paid = @ + commission,
                       !.slippage_cost   = @ + price * trade.shares * config.slippage]
      IN [L EXCEPT !.capital = @ + (IF credit_commission THEN exit_value - commission
                                    ELSE exit_value),
                   !.trades = Append(@, closed),
                   !.open_positions = DictDel(@, symbol)]

\* mutant: pnl is computed after commission_paid += commission, so the exit
\* commission is counted twice
close_position_commission_twice(L, symbol, d, price, reason) ==
    close_position_variant(L, symbol, d, price, reason, 100 - config.slippage, TRUE, TRUE)

\* mutant: the exit price is slipped upwards, in the holder's favour
close_position_slip_up(L, symbol, d, price, reason) ==
    close_position_variant(L, symbol, d, price, reason, 100 + config.slippage, FALSE, TRUE)

\* mutant: the cash is credited with exit_value, the exit commission not deducted
close_position_gross_credit(L, symbol, d, price, reason) ==
    close_position_variant(L, symbol, d, price, reason, 100 - config.slippage, FALSE, FALSE)

\* mutant: pnl is exit_value - position_value - the exit commission, the entry
\* commission left out
close_position_pnl_without_entry_commission(L, symbol, d, price, reason) ==
    IF ~HasKey(L.open_positions, symbol) THEN L
    ELSE
      LET trade          == Get(L.open_positions, symbol)
          adjusted_price == price * (100 - config.slippage)
          exit_value     == adjusted_price * trade.shares
          commission     == (exit_value * config.commission) \div 100
          closed == [trade EXCEPT
                       !.exit_date       = d,
                       !.exit_price      = adjusted_price,
                       !.pnl             = exit_value - trade.position_value - commission,
                       !.exit_reason     = reason,
                       !.commission_paid = @ + commission,
                       !.slippage_cost   = @ + price * trade.shares * config.slippage]
      IN [L EXCEPT !.capital = @ + (exit_value - commission),
                   !.trades = Append(@, closed),
                   !.open_positions = DictDel(@, symbol)]

close_position(L, symbol, d, price, reason) ==
    IF ~HasKey(L.open_positions, symbol) THEN L
    ELSE
      LET trade          == Get(L.open_positions, symbol)
          adjusted_price == price * (100 - config.slippage)
          exit_value     == adjusted_price * trade.shares
          commission     == (exit_value * config.commission) \div 100
          closed == [trade EXCEPT
                       !.exit_date       = d,
                       !.exit_price      = adjusted_price,
                       !.pnl             = exit_value - trade.position_value
                                             - commission - trade.commission_paid,
                       !.exit_reason     = reason,
                       !.commission_paid = @ + commission,
                       !.slippage_cost   = @ + price * trade.shares * config.slippage]
      IN [L EXCEPT !.capital = @ + (exit_value - commission),
                   !.trades = Append(@, closed),
                   !.open_positions = DictDel(@, symbol)]

----------------------------------------------------------------------------
(* The log of ledger calls (history, for the ordering properties) *)

OpenEvent(symbol, d, price, signals, score, ok) ==
    [op |-> "open", symbol |-> symbol, date |-> d, price |-> price,
     reason |-> "", signals |-> signals, score |-> score, ok |-> ok]

CloseEvent(symbol, d, price, reason, ok) ==
    [op |-> "close", symbol |-> symbol, date |-> d, price |-> price,
     reason |-> reason, signals |-> <<>>, score |-> 0, ok |-> ok]

\* a call of screen_stocks
ScreenEvent(d) ==
    [op |-> "screen", symbol |-> "", date |-> d, price |-> 0,
     reason |-> "", signals |-> <<>>, score |-> 0, ok |-> TRUE]

----------------------------------------------------------------------------
(* Market data and the calendar *)

\* the business days of pd.bdate_range(start_date, end_date)
business_days == {d \in config.start_date..config.end_date : IsBusinessDay(d)}

DaysAfter(d) == {e \in business_days : e > d}

Min(S) == CHOOSE x \in S : \A y \in S : x <= y

Max(S) == CHOOSE x \in S : \A y \in S : x >= y

\* the place of business day d in the range: 1 for the first one
DayIndex(d) == Cardinality({e \in business_days : e <= d})

\* a cell of a frame: a bar with its close and what screening makes of the history
\* that ends with it (score 0 stands for "no result appended": fewer than 30 bars,
\* an exception while screening, or total_score <= 0), no bar on that day, or a
\* fetch that fails on that day
Bar(close, score, signals) == [kind |-> "bar", close |-> close, score |-> score, signals |-> signals]

NoBar == [kind |-> "none", close |-> NoData, score |-> 0, signals |-> <<>>]

FetchError == [kind |-> "error", close |-> NoData, score |-> 0, signals |-> <<>>]

Bars ==
    { Bar(1000, 70, <<>>),
      Bar(1090, 90, <<"volume_surge">>),
      Bar(1000, 0, <<>>),
      Bar(1090, 60, <<>>) }

Cells == Bars \cup {NoBar, FetchError}

Frame == [1..MaxDays -> Cells]

\* a symbol without data: every fetch returns None
NoFrame == [k \in 1..MaxDays |-> FetchError]

\* the markets explored by run(): two symbols of the universe trade, the others
\* have no data; A takes every cell, B a qualifying bar or none
Traded == {"A", "B"}
QualifyingCells == {c \in Cells : c.kind = "none" \/ c.score >= EntryThreshold}
DataFrames ==
    { [s \in Symbols |-> IF s = "A" THEN a ELSE IF s = "B" THEN b ELSE NoFrame] :
        a \in Frame, b \in [1..MaxDays -> QualifyingCells] }

\* the markets explored next to direct calls of the ledger: the same cell every day
SteadyFrames ==
    { [s \in Symbols |-> IF s \in Traded THEN [k \in 1..MaxDays |-> c[s]] ELSE NoFrame] :
        c \in [Traded -> Cells] }

\* the markets explored for the screening: every symbol of the universe trades, the
\* same cell every day
ScreenFrames == { [s \in Symbols |-> [k \in 1..MaxDays |-> c[s]]] : c \in [Symbols -> Cells] }

\* mutant: the frame is not cut at the date
history_until_uncut(frame, k) == {j \in DOMAIN frame : frame[j].kind = "bar"}

\* df[df.index <= date]: the bars of a frame dated at or before the k-th day
history_until(frame, k) == {j \in DOMAIN frame : j <= k /\ frame[j].kind = "bar"}

\* get_historical_data on the k-th day and iloc[-1] of the cut frame: the last bar at
\* or before that day; NoBar when the fetch returns None or the cut frame is empty
latest_data(frames, symbol, k) ==
    IF frames[symbol][k].kind = "error" THEN NoBar
    ELSE LET h == history_until(frames[symbol], k)
         IN  IF h = {} THEN NoBar ELSE frames[symbol][Max(h)]

\* the current price of every symbol on the k-th day
current_prices(frames, k) == [s \in Symbols |-> latest_data(frames, s, k).close]

\* what calculate_score makes of every symbol on the k-th day
score_results(frames, k) ==
    [s \in Symbols |-> [score   |-> latest_data(frames, s, k).score,
                        signals |-> latest_data(frames, s, k).signals]]

----------------------------------------------------------------------------
(* process_day, step 1 and 2: exit evaluation and exit execution *)

\* mutant: the time limit is tested before the price rules
exit_rule_time_first(trade, current_price, d) ==
    LET days_held == d - trade.entry_date
        num == current_price * 100 - trade.entry_price
    IN  IF trade.entry_price > 0
        THEN IF days_held >= config.holding_period_limit THEN "time_limit"
             ELSE IF num * 100 >= config.take_profit * trade.entry_price THEN "take_profit"
             ELSE IF num * 100 <= (0 - config.stop_loss) * trade.entry_price THEN "stop_loss"
             ELSE ""
        ELSE ""

\* mutant: the time limit is due only once it is exceeded
exit_rule_time_strict(trade, current_price, d) ==
    LET days_held == d - trade.entry_date
        num == current_price * 100 - trade.entry_price
    IN  IF trade.entry_price > 0
        THEN IF num * 100 >= config.take_profit * trade.entry_price THEN "take_profit"
             ELSE IF num * 100 <= (0 - config.stop_loss) * trade.entry_price THEN "stop_loss"
             ELSE IF days_held > config.holding_period_limit THEN "time_limit"
             ELSE ""
        ELSE ""

\* the reason a position is marked for closing with, "" when it is not marked
exit_rule(trade, current_price, d) ==
    LET days_held == d - trade.entry_date
        \* return_pct = num / entry_price, rates are percents
        num == current_price * 100 - trade.entry_price
    IN  IF trade.entry_price > 0
        THEN IF num * 100 >= config.take_profit * trade.entry_price THEN "take_profit"
             ELSE IF num * 100 <= (0 - config.stop_loss) * trade.entry_price THEN "stop_loss"
             ELSE IF days_held >= config.holding_period_limit THEN "time_limit"
             ELSE ""
        ELSE ""

RECURSIVE positions_to_close(_, _, _, _)
positions_to_close(ops, i, m, d) ==
    IF i > Len(ops) THEN <<>>
    ELSE LET trade == ops[i]
             rest  == positions_to_close(ops, i + 1, m, d)
         IN  IF m[trade.symbol] = NoData THEN rest
             ELSE LET reason == exit_rule(trade, m[trade.symbol], d)
                  IN  IF reason = "" THEN rest
                      ELSE <<[symbol |-> trade.symbol, price |-> m[trade.symbol],
                              reason |-> reason]>> \o rest

RECURSIVE close_each(_, _, _, _)
close_each(L, ptc, i, d) ==
    IF i > Len(ptc) THEN L
    ELSE close_each(close_position(L, ptc[i].symbol, d, ptc[i].price, ptc[i].reason),
                    ptc, i + 1, d)

close_events(L, ptc, d) ==
    [i \in 1..Len(ptc) |->
        CloseEvent(ptc[i].symbol, d, ptc[i].price, ptc[i].reason,
                   HasKey(L.open_positions, ptc[i].symbol))]

----------------------------------------------------------------------------
(* process_day, step 3: screening and entries *)

\* results.sort(key=score, reverse=True): stable, descending
RECURSIVE sort_by_score(_)
sort_by_score(results) ==
    IF Len(results) = 0 THEN <<>>
    ELSE LET k == CHOOSE i \in 1..Len(results) :
                    /\ \A j \in 1..Len(results) : results[j].score <= results[i].score
                    /\ \A j \in 1..(i - 1) : results[j].score < results[i].score
         IN  <<results[k]>> \o
             sort_by_score([j \in 1..(Len(results) - 1) |->
                               IF j < k THEN results[j] ELSE results[j + 1]])

Head_n(s, n) == IF Len(s) <= n THEN s ELSE SubSeq(s, 1, n)

screen_stocks(d, univ, m, sc) ==
    LET appended(i) == m[univ[i]] # NoData /\ sc[univ[i]].score > 0
        idx     == {i \in DOMAIN univ : appended(i)}
        RECURSIVE collect(_)
        collect(i) ==
            IF i > Len(univ) THEN <<>>
            ELSE IF i \in idx
                 THEN <<[symbol  |-> univ[i],
                         date    |-> d,
                         price   |-> m[univ[i]],
                         score   |-> sc[univ[i]].score,
                         signals |-> sc[univ[i]].signals]>> \o collect(i + 1)
                 ELSE collect(i + 1)
    IN  Head_n(sort_by_score(collect(1)), config.max_positions * 2)

\* mutant: the loop over screening_results without the score threshold
RECURSIVE entry_loop_no_threshold(_, _, _, _, _)
entry_loop_no_threshold(L, results, i, d, log) ==
    IF i > Len(results) THEN [L |-> L, log |-> log]
    ELSE IF ~can_open_position(L) THEN [L |-> L, log |-> log]
    ELSE LET result == results[i] IN
         IF HasKey(L.open_positions, result.symbol)
         THEN entry_loop_no_threshold(L, results, i + 1, d, log)
         ELSE LET r == open_position(L, result.symbol, d, result.price,
                                     result.signals, result.score)
              IN  entry_loop_no_threshold(r.L, results, i + 1, d,
                             Append(log, OpenEvent(result.symbol, d, result.price,
                                                   result.signals, result.score,
                                                   r.ok)))

\* mutant: a symbol closed on the day is not entered again that day
RECURSIVE entry_loop_skip_closed_today(_, _, _, _, _)
entry_loop_skip_closed_today(L, results, i, d, log) ==
    IF i > Len(results) THEN [L |-> L, log |-> log]
    ELSE IF ~can_open_position(L) THEN [L |-> L, log |-> log]
    ELSE LET result == results[i] IN
         IF \/ HasKey(L.open_positions, result.symbol)
            \/ \E j \in 1..Len(L.trades) :
                  L.trades[j].symbol = result.symbol /\ L.trades[j].exit_date = d
         THEN entry_loop_skip_closed_today(L, results, i + 1, d, log)
         ELSE IF result.score >= EntryThreshold
              THEN LET r == open_position(L, result.symbol, d, result.price,
                                          result.signals, result.score)
                   IN  entry_loop_skip_closed_today(r.L, results, i + 1, d,
                                  Append(log, OpenEvent(result.symbol, d, result.price,
                                                        result.signals, result.score,
                                                        r.ok)))
              ELSE entry_loop_skip_closed_today(L, results, i + 1, d, log)

\* the loop over screening_results; returns [L |-> ledger, log |-> calls made]
RECURSIVE entry_loop(_, _, _, _, _)
entry_loop(L, results, i, d, log) ==
    IF i > Len(results) THEN [L |-> L, log |-> log]
    ELSE IF ~can_open_position(L) THEN [L |-> L, log |-> log]
    ELSE LET result == results[i] IN
         IF HasKey(L.open_positions, result.symbol)
         THEN entry_loop(L, results, i + 1, d, log)
         ELSE IF result.score >= EntryThreshold
              THEN LET r == open_position(L, result.symbol, d, result.price,
                                          result.signals, result.score)
                   IN  entry_loop(r.L, results, i + 1, d,
                                  Append(log, OpenEvent(result.symbol, d, result.price,
                                                        result.signals, result.score,
                                                        r.ok)))
              ELSE entry_loop(L, results, i + 1, d, log)

----------------------------------------------------------------------------
(* process_day, step 4: the daily equity snapshot *)

RECURSIVE holdings_value(_, _, _)
holdings_value(ops, i, m) ==
    IF i > Len(ops) THEN 0
    ELSE (IF m[ops[i].symbol] = NoData THEN 0
          ELSE m[ops[i].symbol] * 100 * ops[i].shares)
         + holdings_value(ops, i + 1, m)

snapshot(L, d, m) ==
    [date           |-> d,
     cash           |-> L.capital,
     total_value    |-> L.capital + holdings_value(L.open_positions, 1, m),
     open_positions |-> Len(L.open_positions)]

----------------------------------------------------------------------------
(* process_day as a whole, and the loop of run() over the first n business days *)

\* process_day on the k-th business day, from engine state E = [L, de] (ledger and
\* daily_equity), in the market `frames'
process_day(E, frames, k) ==
    LET d  == CHOOSE e \in business_days : DayIndex(e) = k
        m  == current_prices(frames, k)
        sc == score_results(frames, k)
        L1 == close_each(E.L, positions_to_close(E.L.open_positions, 1, m, d), 1, d)
        L2 == IF can_open_position(L1)
              THEN entry_loop(L1, screen_stocks(d, universe, m, sc), 1, d, <<>>).L
              ELSE L1
    IN  [L |-> L2, de |-> Append(E.de, snapshot(L2, d, m))]

\* a fresh engine after the first n days of run()
RECURSIVE run_days(_, _)
run_days(frames, n) ==
    IF n = 0
    THEN [L  |-> [capital |-> config.initial_capital, open_positions |-> <<>>,
                  trades |-> <<>>],
          de |-> <<>>]
    ELSE process_day(run_days(frames, n - 1), frames, n)

----------------------------------------------------------------------------
(* calculate_results.  Quotients are kept as exact fractions num/den.  The    *)
(* statistics that are not rational numbers (a power, a standard deviation)   *)
(* are kept by their sign: annualized_return has the sign of final_capital -  *)
(* initial_capital, volatility is positive exactly when the daily returns are *)
(* not all equal, sharpe_ratio has the sign of their quotient.                *)

RECURSIVE SumInts(_)
SumInts(q) == IF Len(q) = 0 THEN 0 ELSE Head(q) + SumInts(Tail(q))

Abs(x) == IF x < 0 THEN 0 - x ELSE x

Sign(x) == IF x > 0 THEN 1 ELSE IF x < 0 THEN 0 - 1 ELSE 0

\* the float num / den
Rat(num, den) == [num |-> num, den |-> den]

\* the float 0.0
Zero == Rat(0, 1)

\* a / b = c / d, for a, c >= 0 and b, d > 0 (by the continued fractions of both)
RECURSIVE SameRatio(_, _, _, _)
SameRatio(a, b, c, d) ==
    IF a \div b # c \div d THEN FALSE
    ELSE IF a % b = 0 \/ c % d = 0 THEN a % b = 0 /\ c % d = 0
    ELSE SameRatio(b, a % b, d, c % d)

\* daily_equity['total_value'].pct_change().dropna() has a standard deviation
\* above 0: two of the daily returns differ
returns_differ(de) ==
    \E i, j \in 2..Len(de) :
       ~SameRatio(de[i].total_value, de[i - 1].total_value,
                  de[j].total_value, de[j - 1].total_value)

\* BacktestResult(config=self.config) with the basic fields set: the statistics
\* have the defaults of the dataclass
BacktestResult(ts, de, final_capital) ==
    [ trades            |-> ts,
      daily_equity      |-> de,
      initial_capital   |-> config.initial_capital,
      final_capital     |-> final_capital,
      total_return      |-> Zero,
      annualized_return |-> 0,
      volatility        |-> 0,
      sharpe_ratio      |-> 0,
      win_rate          |-> Zero,
      profit_factor     |-> Zero,
      total_trades      |-> 0,
      winning_trades    |-> 0,
      losing_trades     |-> 0 ]

\* mutant: total_return is final_capital / initial_capital * 100, the initial
\* capital not subtracted
calculate_results_gross_return(L, de) ==
    LET result == BacktestResult(L.trades, de, L.capital)
        days   == config.end_date - config.start_date
        annualized_return == IF days > 0 THEN Sign(L.capital - config.initial_capital) ELSE 0
        volatility     == IF Len(de) > 2 /\ returns_differ(de) THEN 1 ELSE 0
        winning_trades == SelectSeq(L.trades, LAMBDA t : t.pnl > 0)
        losing_trades  == SelectSeq(L.trades, LAMBDA t : t.pnl < 0)
        total_wins     == SumInts([i \in 1..Len(winning_trades) |-> winning_trades[i].pnl])
        total_losses   == Abs(SumInts([i \in 1..Len(losing_trades) |-> losing_trades[i].pnl]))
    IN  IF Len(de) = 0 THEN result
        ELSE [result EXCEPT
                \* final_capital * 100 / initial_capital, reduced by 100
                !.total_return      = Rat(L.capital, config.initial_capital \div 100),
                !.annualized_return = annualized_return,
                !.volatility        = volatility,
                !.sharpe_ratio      = IF volatility > 0 THEN annualized_return ELSE 0,
                !.total_trades      = Len(L.trades),
                !.winning_trades    = Len(winning_trades),
                !.losing_trades     = Len(losing_trades),
                !.win_rate          = IF Len(L.trades) > 0
                                      THEN Rat(Len(winning_trades) * 100, Len(L.trades))
                                      ELSE Zero,
                !.profit_factor     = IF Len(L.trades) > 0 /\ total_losses > 0
                                      THEN Rat(total_wins, total_losses)
                                      ELSE Zero]

\* total_return and win_rate are percentages; a division by initial_capital = 0
\* raises, which is the caller's matter (Liquidate)
calculate_results(L, de) ==
    LET result == BacktestResult(L.trades, de, L.capital)
        \* (result.end_date - result.start_date).days
        days   == config.end_date - config.start_date
        annualized_return == IF days > 0 THEN Sign(L.capital - config.initial_capital) ELSE 0
        \* len(daily_equity) > 1, len(daily_returns) > 1 and a deviation above 0
        volatility     == IF Len(de) > 2 /\ returns_differ(de) THEN 1 ELSE 0
        winning_trades == SelectSeq(L.trades, LAMBDA t : t.pnl > 0)
        losing_trades  == SelectSeq(L.trades, LAMBDA t : t.pnl < 0)
        total_wins     == SumInts([i \in 1..Len(winning_trades) |-> winning_trades[i].pnl])
        total_losses   == Abs(SumInts([i \in 1..Len(losing_trades) |-> losing_trades[i].pnl]))
    IN  IF Len(de) = 0 THEN result
        ELSE [result EXCEPT
                !.total_return      = Rat((L.capital - config.initial_capital) * 100,
                                          config.initial_capital),
                !.annualized_return = annualized_return,
                !.volatility        = volatility,
                !.sharpe_ratio      = IF volatility > 0 THEN annualized_return ELSE 0,
                !.total_trades      = Len(L.trades),
                !.winning_trades    = Len(winning_trades),
                !.losing_trades     = Len(losing_trades),
                !.win_rate          = IF Len(L.trades) > 0
                                      THEN Rat(Len(winning_trades) * 100, Len(L.trades))
                                      ELSE Zero,
                !.profit_factor     = IF Len(L.trades) > 0 /\ total_losses > 0
                                      THEN Rat(total_wins, total_losses)
                                      ELSE Zero]

----------------------------------------------------------------------------
(* StockAnalyzer.calculate_score (src/src/analyzer.py).  Scores are in tenths *)
(* of a point (a bucket can be 0.8 or 0.5 of an integer weight), volume_ratio *)
(* in tenths, gap_ratio, the positions against the moving averages and        *)
(* sector_performance in percent.                                             *)

\* self.scoring_weights.get(key, default) for every key: the defaults
DefaultWeights ==
    [ volume_surge |-> 30, gap_up_extreme |-> 0 - 10, gap_up_high |-> 10,
      gap_up_moderate |-> 20, ma5_breakout |-> 15, ma25_breakout |-> 20,
      lower_shadow |-> 10, high_close |-> 10, resistance_break |-> 15,
      positive_news |-> 25, sector_momentum |-> 10 ]

\* the weights explored: the defaults, and a configuration that penalises
Weights ==
    { DefaultWeights,
      [ volume_surge |-> 0 - 30, gap_up_extreme |-> 0 - 40, gap_up_high |-> 0 - 10,
        gap_up_moderate |-> 5, ma5_breakout |-> 0 - 15, ma25_breakout |-> 0 - 20,
        lower_shadow |-> 10, high_close |-> 10, resistance_break |-> 15,
        positive_news |-> 0 - 25, sector_momentum |-> 10 ] }

NewsItems ==
    { [sentiment |-> "positive", category |-> "earnings"],
      [sentiment |-> "positive", category |-> ""],
      [sentiment |-> "negative", category |-> ""] }

\* the stock_data explored
StockData ==
    [ symbol               : {"A"},
      current_price        : {1000},
      volume_ratio         : {10, 15, 20, 30},
      gap_ratio            : {0, 2, 6, 11},
      technical_indicators : [ position_vs_sma5    : {0 - 1, 1, 2},
                               position_vs_sma25   : {0 - 1, 2},
                               candlestick_pattern : {"", "lower_shadow", "high_close"},
                               resistance_levels   : {{}, {990}, {1000, 1090}} ],
      news                 : UNION { [1..k -> NewsItems] : k \in 0..MaxNews },
      sector_data          : [ sector_performance : {0, 3} ] ]

_calculate_volume_score(sd, w) ==
    IF sd.volume_ratio >= 30 THEN w.volume_surge * 10
    ELSE IF sd.volume_ratio >= 20 THEN w.volume_surge * 8
    ELSE IF sd.volume_ratio >= 15 THEN w.volume_surge * 5
    ELSE 0

_calculate_gap_score(sd, w) ==
    IF sd.gap_ratio > 10 THEN w.gap_up_extreme * 10
    ELSE IF sd.gap_ratio > 5 THEN w.gap_up_high * 10
    ELSE IF sd.gap_ratio >= 2 THEN w.gap_up_moderate * 10
    ELSE 0

\* current_price > min(resistance_levels) * 1.005
resistance_broken(sd) ==
    LET levels == sd.technical_indicators.resistance_levels
    IN  levels # {} /\ sd.current_price * 1000 > Min(levels) * 1005

_calculate_technical_score(sd, w) ==
    LET technical == sd.technical_indicators
    IN  (IF technical.position_vs_sma5 > 0 THEN w.ma5_breakout * 10 ELSE 0)
        + (IF technical.position_vs_sma25 > 0 THEN w.ma25_breakout * 10 ELSE 0)
        + (IF technical.candlestick_pattern = "lower_shadow" THEN w.lower_shadow * 10
           ELSE IF technical.candlestick_pattern = "high_close" THEN w.high_close * 10
           ELSE 0)
        + (IF resistance_broken(sd) THEN w.resistance_break * 10 ELSE 0)

\* min(score, weight), score being the weight once per positive news
_calculate_news_score(sd, w) ==
    LET positive == Len(SelectSeq(sd.news, LAMBDA n : n.sentiment = "positive"))
        score    == positive * w.positive_news * 10
    IN  IF score < w.positive_news * 10 THEN score ELSE w.positive_news * 10

_calculate_social_score(sd, w) == 0

_calculate_sector_score(sd, w) ==
    IF sd.sector_data.sector_performance > 2 THEN w.sector_momentum * 10 ELSE 0

detect_entry_signals(sd) ==
    LET technical == sd.technical_indicators
        news_signals == SelectSeq(sd.news, LAMBDA n : n.sentiment = "positive"
                                                       /\ n.category = "earnings")
    IN  (IF sd.volume_ratio >= 20 THEN <<"volume_surge">> ELSE <<>>)
        \o (IF sd.gap_ratio >= 2 /\ sd.gap_ratio <= 5 THEN <<"gap_up_moderate">>
            ELSE IF sd.gap_ratio > 5 /\ sd.gap_ratio <= 10 THEN <<"gap_up_high">>
            ELSE <<>>)
        \o (IF technical.position_vs_sma5 > 1 THEN <<"ma5_breakout">> ELSE <<>>)
        \o (IF technical.position_vs_sma25 > 1 THEN <<"ma25_breakout">> ELSE <<>>)
        \o (IF technical.candlestick_pattern = "lower_shadow" THEN <<"lower_shadow">>
            ELSE IF technical.candlestick_pattern = "high_close" THEN <<"high_close">>
            ELSE <<>>)
        \o (IF resistance_broken(sd) THEN <<"resistance_break">> ELSE <<>>)
        \o [i \in 1..Len(news_signals) |-> "positive_news"]

_detect_warnings(sd) ==
    (IF sd.gap_ratio > 10 THEN <<"extreme_gap_up">> ELSE <<>>)
    \o (IF sd.volume_ratio > 50 THEN <<"abnormal_volume">> ELSE <<>>)

calculate_score(sd, w) ==
    LET volume_score    == _calculate_volume_score(sd, w)
        gap_score       == _calculate_gap_score(sd, w)
        technical_score == _calculate_technical_score(sd, w)
        news_score      == _calculate_news_score(sd, w)
        social_score    == _calculate_social_score(sd, w)
        sector_score    == _calculate_sector_score(sd, w)
        total_score     == volume_score + gap_score + technical_score + news_score
                              + social_score + sector_score
    IN  [ symbol          |-> sd.symbol,
          \* max(0, min(100, total_score))
          total_score     |-> IF total_score > 1000 THEN 1000
                              ELSE IF total_score < 0 THEN 0 ELSE total_score,
          score_breakdown |-> [ volume_score    |-> volume_score,
                                gap_score       |-> gap_score,
                                technical_score |-> technical_score,
                                news_score      |-> news_score,
                                social_score    |-> social_score,
                                sector_score    |-> sector_score ],
          signals         |-> detect_entry_signals(sd),
          warnings        |-> _detect_warnings(sd) ]

\* StockAnalyzer.__init__, and no call of calculate_score under way
AnalyzerNew ==
    /\ stock_data = <<>>
    /\ scoring_weights = DefaultWeights
    /\ score_result = <<>>

----------------------------------------------------------------------------
(* RealtimeMonitor (src/src/realtime_monitor.py): start_monitoring,           *)
(* stop_monitoring and the three loops they start and stop.  A Thread is      *)
(* named by its target and by the call of start_monitoring that created it.   *)
(* What an iteration does to monitoring_stocks and to the alert queue is left *)
(* out: the loops are followed from their `while self.is_running' to the wait *)
(* that ends an iteration.                                                    *)

Loops == {"_price_update_loop", "_alert_processing_loop", "_trailing_stop_loop"}

Thread(target, n) == [target |-> target, n |-> n]

Threads == {Thread(target, n) : target \in Loops, n \in 1..MaxStarts}

\* RealtimeMonitor.__init__
MonitorNew ==
    /\ is_running = FALSE
    /\ threads = <<>>
    /\ thread_pc = [t \in Threads |-> "new"]
    /\ monitor_pc = "idle"
    /\ start_calls = 0

\* start_monitoring: returns at once when is_running, else sets it and starts the
\* three threads
start_monitoring ==
    /\ monitor_pc = "idle"
    /\ start_calls < MaxStarts
    /\ start_calls' = start_calls + 1
    /\ IF is_running
       THEN UNCHANGED <<is_running, threads, thread_pc>>
       ELSE /\ is_running' = TRUE
            /\ threads' = threads \o << Thread("_price_update_loop", start_calls + 1),
                                         Thread("_alert_processing_loop", start_calls + 1),
                                         Thread("_trailing_stop_loop", start_calls + 1) >>
            /\ thread_pc' = [t \in Threads |->
                                IF t.n = start_calls + 1 THEN "while" ELSE thread_pc[t]]
    /\ UNCHANGED monitor_pc

\* stop_monitoring, line 105: is_running = False, then the joins begin
stop_monitoring ==
    /\ monitor_pc = "idle"
    /\ is_running' = FALSE
    /\ monitor_pc' = "join"
    /\ UNCHANGED <<threads, thread_pc, start_calls>>

\* stop_monitoring, lines 108-111: every join(timeout=5) has returned, the thread
\* ended or not, and the list is cleared.  A thread that waits for an alert wakes
\* within 1 second and is joined; one that is in its iteration or sleeps its 60 or
\* 30 seconds may outlast its join
threads_joined ==
    /\ monitor_pc = "join"
    /\ \A i \in 1..Len(threads) :
          \/ thread_pc[threads[i]] = "dead"
          \/ /\ threads[i].target # "_alert_processing_loop"
             /\ thread_pc[threads[i]] \in {"body", "wait"}
    /\ threads' = <<>>
    /\ monitor_pc' = "idle"
    /\ UNCHANGED <<is_running, thread_pc, start_calls>>

\* `while self.is_running' of a loop: into the iteration, or out of the loop and
\* the thread ends
loop_test(t) ==
    /\ thread_pc[t] = "while"
    /\ thread_pc' = [thread_pc EXCEPT ![t] = IF is_running THEN "body" ELSE "dead"]
    /\ UNCHANGED <<is_running, threads, monitor_pc, start_calls>>

\* the iteration is made and the thread waits: time.sleep(update_interval),
\* time.sleep(30), or alerts.get(timeout=1)
loop_body(t) ==
    /\ thread_pc[t] = "body"
    /\ thread_pc' = [thread_pc EXCEPT ![t] = "wait"]
    /\ UNCHANGED <<is_running, threads, monitor_pc, start_calls>>

\* the wait is over: back to the test of the loop
loop_wake(t) ==
    /\ thread_pc[t] = "wait"
    /\ thread_pc' = [thread_pc EXCEPT ![t] = "while"]
    /\ UNCHANGED <<is_running, threads, monitor_pc, start_calls>>

----------------------------------------------------------------------------
(* The order of the steps of process_day *)

\* mutant: the entries of a day are made before its exits
process_day_steps_entry_first == <<"entry", "exit", "mark">>

\* mutant: the day ends without its snapshot
process_day_steps_no_mark == <<"exit", "entry">>

process_day_steps == <<"exit", "entry", "mark">>

first_step == process_day_steps[1]

\* the step after step p, "" after the last one
next_step(p) ==
    IF \E k \in 1..(Len(process_day_steps) - 1) : process_day_steps[k] = p
    THEN process_day_steps[(CHOOSE k \in DOMAIN process_day_steps :
                               process_day_steps[k] = p) + 1]
    ELSE ""

----------------------------------------------------------------------------
(* Initial state: BacktestEngine.__init__, run() before its first day *)

\* an engine made for one of configs, in one of markets, at the first day of run():
\* past the loop at once when the range holds no business day
Start(configs, markets) ==
    /\ config \in configs
    /\ capital = config.initial_capital
    /\ open_positions = <<>>
    /\ trades = <<>>
    /\ daily_equity = <<>>
    /\ date = (IF business_days = {} THEN config.start_date ELSE Min(business_days))
    /\ pc = (IF business_days = {} THEN "end" ELSE first_step)
    /\ df \in markets
    /\ market = current_prices(df, 1)
    /\ calls = <<>>
    /\ run_results = <<>>
    /\ AnalyzerNew
    /\ MonitorNew

\* the configurations run() is explored with: those whose capital buys a lot
RunConfigs == {c \in Configs : c.initial_capital >= 10000000}

Init == Start(RunConfigs, DataFrames)

SetLedger(L) ==
    /\ capital' = L.capital
    /\ open_positions' = L.open_positions
    /\ trades' = L.trades

\* the caller moves on to the next business day, whose data is m, or past the last one
NextDay(m) ==
    IF DaysAfter(date) = {}
    THEN pc' = "end" /\ date' = date /\ market' = market /\ calls' = calls
    ELSE /\ pc' = first_step
         /\ date' = Min(DaysAfter(date))
         /\ market' = m
         /\ calls' = <<>>

\* a step of process_day is over, having made the calls of log: on to its next
\* step, or to the next day
StepDone(m, log) ==
    IF next_step(pc) = ""
    THEN NextDay(m)
    ELSE pc' = next_step(pc) /\ calls' = log /\ UNCHANGED <<date, market>>

----------------------------------------------------------------------------
(* Actions *)

\* process_day lines 351-379: exit evaluation and execution
ExitPhase(m) ==
    /\ pc = "exit"
    /\ LET ptc == positions_to_close(open_positions, 1, market, date)
       IN  /\ SetLedger(close_each(Ledger, ptc, 1, date))
           /\ StepDone(m, calls \o close_events(Ledger, ptc, date))
    /\ UNCHANGED <<analyzer_vars, monitor_vars, config, daily_equity, df, run_results>>

\* process_day lines 381-398: screening and entries
EntryPhase(m, sc) ==
    /\ pc = "entry"
    /\ LET r == IF can_open_position(Ledger)
                THEN entry_loop(Ledger, screen_stocks(date, universe, market, sc),
                                1, date, <<ScreenEvent(date)>>)
                ELSE [L |-> Ledger, log |-> <<>>]
       IN  /\ SetLedger(r.L)
           /\ StepDone(m, calls \o r.log)
    /\ UNCHANGED <<analyzer_vars, monitor_vars, config, daily_equity, df, run_results>>

\* process_day lines 400-415: the daily equity snapshot
MarkToMarket(m) ==
    /\ pc = "mark"
    /\ daily_equity' = Append(daily_equity, snapshot(Ledger, date, market))
    /\ StepDone(m, calls)
    /\ UNCHANGED <<analyzer_vars, monitor_vars, config, capital, open_positions, trades, df, run_results>>

\* run() lines 451-466: close what is still open, at the last price up to end_date,
\* and return the result; with snapshots and initial_capital = 0 the division of
\* line 491 raises ZeroDivisionError and run() returns nothing
Liquidate ==
    /\ pc = "end"
    /\ LET ptc == [i \in 1..Len(open_positions) |->
                     [symbol |-> open_positions[i].symbol,
                      price  |-> market[open_positions[i].symbol],
                      reason |-> "backtest_end"]]
           avail == SelectSeq(ptc, LAMBDA c : c.price # NoData)
           L     == close_each(Ledger, avail, 1, config.end_date)
       IN  /\ SetLedger(L)
           /\ calls' = close_events(Ledger, avail, config.end_date)
           /\ IF config.initial_capital = 0 /\ Len(daily_equity) > 0
              THEN pc' = "raised" /\ run_results' = run_results
              ELSE /\ pc' = "done"
                   /\ run_results' = Append(run_results, calculate_results(L, daily_equity))
    /\ UNCHANGED <<analyzer_vars, monitor_vars, config, daily_equity, date, market, df>>

\* run() called again on the same engine: lines 433-449 start the day loop over,
\* with the ledger as the last run left it
RunAgain ==
    /\ pc = "done"
    /\ Len(run_results) < MaxRuns
    /\ pc' = (IF business_days = {} THEN "end" ELSE first_step)
    /\ date' = (IF business_days = {} THEN config.start_date ELSE Min(business_days))
    /\ market' = current_prices(df, 1)
    /\ calls' = <<>>
    /\ UNCHANGED <<analyzer_vars, monitor_vars, config, capital, open_positions, trades, daily_equity, df, run_results>>

\* a direct call of open_position on day `date', in place of that day's process_day
OpenCall(symbol, price, signals, score) ==
    /\ pc = first_step
    /\ LET r == open_position(Ledger, symbol, date, price, signals, score)
       IN  /\ SetLedger(r.L)
           /\ calls' = <<OpenEvent(symbol, date, price, signals, score, r.ok)>>
    /\ pc' = "called"
    /\ UNCHANGED <<analyzer_vars, monitor_vars, config, daily_equity, date, market, df, run_results>>

\* a direct call of close_position on day `date', in place of that day's process_day
CloseCall(symbol, price, reason) ==
    /\ pc = first_step
    /\ SetLedger(close_position(Ledger, symbol, date, price, reason))
    /\ calls' = <<CloseEvent(symbol, date, price, reason, HasKey(open_positions, symbol))>>
    /\ pc' = "called"
    /\ UNCHANGED <<analyzer_vars, monitor_vars, config, daily_equity, date, market, df, run_results>>

\* the caller of a direct call moves on to the next day
CallReturn(m) ==
    /\ pc = "called"
    /\ NextDay(m)
    /\ UNCHANGED <<analyzer_vars, monitor_vars, config, capital, open_positions, trades, daily_equity, df, run_results>>

\* the prices the step at hand leaves to the next one: those of the next business
\* day once the day (or the direct call) is over
NextData ==
    IF next_step(pc) = "" /\ DaysAfter(date) # {}
    THEN {current_prices(df, DayIndex(date) + 1)}
    ELSE {market}

\* what screening finds on the day at hand (nothing when the range has no day)
Screening ==
    IF date \in business_days
    THEN {score_results(df, DayIndex(date))}
    ELSE {[s \in Symbols |-> [score |-> 0, signals |-> <<>>]]}

\* run(): the days in order, then the final liquidation
Next ==
    \/ \E m \in NextData : ExitPhase(m)
    \/ \E m \in NextData, sc \in Screening : EntryPhase(m, sc)
    \/ \E m \in NextData : MarkToMarket(m)
    \/ Liquidate

Spec == Init /\ [][Next]_vars

\* the same, with direct calls of the ledger's operations in place of some days
LedgerNext ==
    \/ \E m \in NextData : ExitPhase(m)
    \/ \E m \in NextData, sc \in Screening : EntryPhase(m, sc)
    \/ \E m \in NextData : MarkToMarket(m)
    \/ Liquidate
    \/ \E s \in Traded, p \in Prices : OpenCall(s, p, <<"manual">>, 80)
    \/ \E s \in Traded, p \in Prices : CloseCall(s, p, "manual")
    \/ \E m \in NextData : CallReturn(m)

LedgerInit == Start(Configs, SteadyFrames)

\* run() with one slot and little cash, every symbol of the universe trading
ScreenConfigs == { BacktestConfig(0, 10500000, 1, 1, 5) }

ScreenInit == Start(ScreenConfigs, ScreenFrames)

ScreenSpec == ScreenInit /\ [][Next]_vars

\* run() called up to MaxRuns times on the same engine, in the same market
RerunNext ==
    \/ \E m \in NextData : ExitPhase(m)
    \/ \E m \in NextData, sc \in Screening : EntryPhase(m, sc)
    \/ \E m \in NextData : MarkToMarket(m)
    \/ Liquidate
    \/ RunAgain

RerunSpec == Init /\ [][RerunNext]_vars

\* run() with a configuration the specification calls invalid: a range that ends
\* before it starts, no capital, a negative capital
InvalidConfigs ==
    { [BacktestConfig(0, 25000000, 2, 1, 1) EXCEPT !.start_date = 4, !.end_date = 0],
      BacktestConfig(0, 0, 2, 1, 1),
      BacktestConfig(0, 0 - 10000000, 2, 1, 1) }

InvalidInit == Start(InvalidConfigs, DataFrames)

InvalidSpec == InvalidInit /\ [][Next]_vars

\* calculate_results on its own, on an engine holding any trade history and any
\* equity series: a range of some days and a range of one day
StatConfigs ==
    { BacktestConfig(0, 25000000, 2, 1, 1),
      [BacktestConfig(0, 25000000, 2, 1, 1) EXCEPT !.end_date = 0] }

Pnls == {0 - 200, 0, 100, 300}

TotalValues == {25000000, 25100000}

\* a Trade closed with the given pnl
ClosedTrade(pnl) ==
    [Trade("A", 0, 100000, LotSize, 10000000, <<>>, EntryThreshold, 100000, 0)
        EXCEPT !.exit_date = 0, !.exit_price = 100000, !.pnl = pnl,
               !.exit_reason = "backtest_end"]

SeqsUpTo(S, n) == UNION { [1..k -> S] : k \in 0..n }

StatsInit ==
    /\ config \in StatConfigs
    /\ trades \in SeqsUpTo({ClosedTrade(pnl) : pnl \in Pnls}, MaxTrades)
    /\ capital = config.initial_capital + SumInts([i \in 1..Len(trades) |-> trades[i].pnl])
    /\ open_positions = <<>>
    /\ \E values \in SeqsUpTo(TotalValues, MaxSnapshots) :
          daily_equity = [i \in 1..Len(values) |->
                            [date |-> i - 1, cash |-> values[i], total_value |-> values[i],
                             open_positions |-> 0]]
    /\ date = config.start_date
    /\ pc = "stats"
    /\ df = [s \in Symbols |-> NoFrame]
    /\ market = current_prices(df, 1)
    /\ calls = <<>>
    /\ run_results = <<>>
    /\ AnalyzerNew
    /\ MonitorNew

\* a call of calculate_results
CalculateResults ==
    /\ pc = "stats"
    /\ run_results' = Append(run_results, calculate_results(Ledger, daily_equity))
    /\ pc' = "done"
    /\ UNCHANGED <<analyzer_vars, monitor_vars, config, capital, open_positions, trades, daily_equity, date, market, calls, df>>

StatsNext == CalculateResults

StatsSpec == StatsInit /\ [][StatsNext]_vars

\* calculate_score on its own, for any of the stock_data and of the weights
ScoreInit ==
    /\ \E c \in StatConfigs : config = c /\ c.end_date > c.start_date
    /\ capital = config.initial_capital
    /\ open_positions = <<>>
    /\ trades = <<>>
    /\ daily_equity = <<>>
    /\ date = config.start_date
    /\ pc = "score"
    /\ df = [s \in Symbols |-> NoFrame]
    /\ market = current_prices(df, 1)
    /\ calls = <<>>
    /\ run_results = <<>>
    /\ stock_data \in StockData
    /\ scoring_weights \in Weights
    /\ score_result = <<>>
    /\ MonitorNew

\* a call of calculate_score
CalculateScore ==
    /\ pc = "score"
    /\ score_result' = <<calculate_score(stock_data, scoring_weights)>>
    /\ pc' = "scored"
    /\ UNCHANGED <<monitor_vars, config, capital, open_positions, trades, daily_equity, date, market, calls, df, run_results, stock_data, scoring_weights>>

ScoreNext == CalculateScore

ScoreSpec == ScoreInit /\ [][ScoreNext]_vars

\* a RealtimeMonitor, its caller and its threads, next to an engine at rest
MonitorInit ==
    /\ \E c \in StatConfigs : config = c /\ c.end_date > c.start_date
    /\ capital = config.initial_capital
    /\ open_positions = <<>>
    /\ trades = <<>>
    /\ daily_equity = <<>>
    /\ date = config.start_date
    /\ pc = "monitor"
    /\ df = [s \in Symbols |-> NoFrame]
    /\ market = current_prices(df, 1)
    /\ calls = <<>>
    /\ run_results = <<>>
    /\ AnalyzerNew
    /\ MonitorNew

MonitorNext ==
    \/ start_monitoring /\ UNCHANGED <<engine_vars, analyzer_vars>>
    \/ stop_monitoring /\ UNCHANGED <<engine_vars, analyzer_vars>>
    \/ threads_joined /\ UNCHANGED <<engine_vars, analyzer_vars>>
    \/ \E t \in Threads : loop_test(t) /\ UNCHANGED <<engine_vars, analyzer_vars>>
    \/ \E t \in Threads : loop_body(t) /\ UNCHANGED <<engine_vars, analyzer_vars>>
    \/ \E t \in Threads : loop_wake(t) /\ UNCHANGED <<engine_vars, analyzer_vars>>

MonitorSpec == MonitorInit /\ [][MonitorNext]_vars

LedgerSpec == LedgerInit /\ [][LedgerNext]_vars

----------------------------------------------------------------------------
(* Properties *)

\* the ledger calls made by the step at hand
NewCalls ==
    IF Len(calls') >= Len(calls) /\ SubSeq(calls', 1, Len(calls)) = calls
    THEN SubSeq(calls', Len(calls) + 1, Len(calls'))
    ELSE calls'

\* the step at hand is a direct call of open_position or close_position
IsDirectCall == pc' = "called" /\ pc # "called"

UniqueSymbols(d) == \A i, j \in 1..Len(d) : d[i].symbol = d[j].symbol => i = j

\* the cost of entering at quoted price p with the size the ledger computes now
EntryCost(p) ==
    LET slipped == p * calculate_position_size(Ledger, p) * (100 + config.slippage)
    IN  slipped + (slipped * config.commission) \div 100

\* C1: each symbol has at most one open Trade after every call, and open_position
\* for a symbol that has an open Trade returns False and leaves that Trade as it is.
C1_OnePositionPerSymbol ==
    [][ /\ UniqueSymbols(open_positions')
        /\ \A k \in 1..Len(NewCalls) :
             LET e == NewCalls[k] IN
             (e.op = "open" /\ HasKey(open_positions, e.symbol)) =>
                 /\ ~e.ok
                 /\ HasKey(open_positions', e.symbol)
                 /\ Get(open_positions', e.symbol) = Get(open_positions, e.symbol)
                 /\ Len(open_positions') = Len(open_positions) ]_vars

\* C1 witness: a direct open_position for a symbol that is open, with a free slot,
\* has returned False
C1_Witness ==
    /\ pc = "called"
    /\ Len(calls) = 1
    /\ calls[1].op = "open"
    /\ ~calls[1].ok
    /\ HasKey(open_positions, calls[1].symbol)
    /\ Len(open_positions) < config.max_positions

\* C2: can_open_position() is true iff fewer than max_positions positions are open,
\* and neither the ledger nor any daily snapshot ever has more than max_positions.
C2_CapacityRespected ==
    /\ can_open_position(Ledger) <=> (Len(open_positions) < config.max_positions)
    /\ Len(open_positions) <= config.max_positions
    /\ \A i \in 1..Len(daily_equity) :
         daily_equity[i].open_positions <= config.max_positions

\* C2 witness: a day ended with the ledger full and a candidate turned away
C2_Witness ==
    /\ Len(daily_equity) > 0
    /\ daily_equity[Len(daily_equity)].open_positions = config.max_positions
    /\ Len(open_positions) = config.max_positions
    /\ ~can_open_position(Ledger)
    /\ config.max_positions < Len(universe)

\* C3: the cash is never negative, in the ledger and in every snapshot.
C3_CashNeverNegative ==
    /\ capital >= 0
    /\ \A i \in 1..Len(daily_equity) : daily_equity[i].cash >= 0

\* C3 witness: an entry was rejected for its cost alone (free slot, symbol not
\* open), after an earlier entry had been paid for
C3_Witness ==
    /\ \E k \in 1..Len(calls) :
         /\ calls[k].op = "open"
         /\ ~calls[k].ok
         /\ ~HasKey(open_positions, calls[k].symbol)
    /\ Len(open_positions) < config.max_positions
    /\ capital < config.initial_capital
    /\ capital >= 0

\* C4: open_position returns False when the symbol is open, the ledger is full or
\* the entry cost exceeds the cash, and a call that returns False changes neither
\* the cash, the open positions, the closed trades nor daily_equity; with a capital
\* of 1,000 no Trade is ever created.
C4_FailedOpenChangesNothing ==
    [][ /\ \A k \in 1..Len(NewCalls) :
             LET e == NewCalls[k] IN
             (e.op = "open" /\ IsDirectCall) =>
                 /\ ( \/ HasKey(open_positions, e.symbol)
                      \/ Len(open_positions) >= config.max_positions
                      \/ EntryCost(e.price) > capital ) => ~e.ok
                 /\ ~e.ok => UNCHANGED ledger_vars
        /\ ( /\ Len(NewCalls) > 0
             /\ \A k \in 1..Len(NewCalls) : NewCalls[k].op = "open" /\ ~NewCalls[k].ok )
           => UNCHANGED ledger_vars
        /\ config.initial_capital = 100000 =>
             /\ \A k \in 1..Len(NewCalls) : NewCalls[k].op = "open" => ~NewCalls[k].ok
             /\ open_positions' = <<>> /\ trades' = <<>> /\ capital' = 100000 ]_vars

\* C4 witness: with a capital of 1,000, open_position at price 1000 has returned False
C4_Witness ==
    /\ config.initial_capital = 100000
    /\ \E k \in 1..Len(calls) :
         calls[k].op = "open" /\ calls[k].price = 1000 /\ ~calls[k].ok
    /\ capital = 100000
    /\ open_positions = <<>>

\* the calls of the step at hand that opened, and that closed, a position
Opens == SelectSeq(NewCalls, LAMBDA e : e.op = "open" /\ e.ok)
Closes == SelectSeq(NewCalls, LAMBDA e : e.op = "close" /\ e.ok)

\* what the claim says of the Trade a successful open(e) of n shares records
ExpectedOpen(e, n) ==
    [ symbol          |-> e.symbol,
      entry_date      |-> e.date,
      exit_date       |-> NoDate,
      entry_price     |-> e.price * (100 + config.slippage),
      exit_price      |-> 0,
      shares          |-> n,
      position_value  |-> e.price * (100 + config.slippage) * n,
      pnl             |-> 0,
      exit_reason     |-> "",
      signals         |-> e.signals,
      score           |-> e.score,
      commission_paid |-> (e.price * n * (100 + config.slippage) * config.commission) \div 100,
      slippage_cost   |-> e.price * n * config.slippage ]

\* C5: a successful open_position debits the cash by price*shares*(1+slippage) plus
\* the commission on that value and appends exactly one Trade with the slipped
\* entry price, position_value = entry_price*shares and the given date, signals and
\* score; the other positions and the closed trades stay as they are.
C5_OpenDebitsCostAndRecordsTrade ==
    [][ Len(Closes) = 0 =>
        /\ trades' = trades
        /\ Len(open_positions') = Len(open_positions) + Len(Opens)
        /\ \A i \in 1..Len(open_positions) : open_positions'[i] = open_positions[i]
        /\ \A k \in 1..Len(Opens) :
             LET t == open_positions'[Len(open_positions) + k]
             IN  t.shares > 0 /\ t = ExpectedOpen(Opens[k], t.shares)
        /\ capital - capital' =
             SumInts([k \in 1..Len(Opens) |->
                LET t == open_positions'[Len(open_positions) + k]
                    v == Opens[k].price * t.shares * (100 + config.slippage)
                IN  v + (v * config.commission) \div 100]) ]_vars

\* C5 witness: a direct open_position has succeeded next to an older position
C5_Witness ==
    /\ pc = "called"
    /\ calls[1].op = "open"
    /\ calls[1].ok
    /\ Len(open_positions) = 2
    /\ config.slippage > 0

\* what the claim says of the Trade t once close(e) has closed it
ExpectedClosed(t, e) ==
    LET exit_price       == e.price * (100 - config.slippage)
        exit_value       == exit_price * t.shares
        exit_commission  == (exit_value * config.commission) \div 100
        entry_commission == (t.position_value * config.commission) \div 100
    IN  [t EXCEPT !.exit_date       = e.date,
                  !.exit_price      = exit_price,
                  !.pnl             = exit_value - t.position_value
                                        - entry_commission - exit_commission,
                  !.exit_reason     = e.reason,
                  !.commission_paid = entry_commission + exit_commission,
                  !.slippage_cost   = @ + e.price * t.shares * config.slippage]

\* C6: close_position of an open symbol removes it from open_positions, appends
\* that Trade once to the closed trades with pnl = exit_value - position_value -
\* entry commission - exit commission and commission_paid = the two commissions,
\* and credits the cash by exit_value - exit commission.
C6_CloseMovesTradeAndCreditsCash ==
    [][ Len(Opens) = 0 =>
        /\ Len(trades') = Len(trades) + Len(Closes)
        /\ \A i \in 1..Len(trades) : trades'[i] = trades[i]
        /\ \A k \in 1..Len(Closes) :
             /\ HasKey(open_positions, Closes[k].symbol)
             /\ ~HasKey(open_positions', Closes[k].symbol)
             /\ trades'[Len(trades) + k] =
                  ExpectedClosed(Get(open_positions, Closes[k].symbol), Closes[k])
        /\ open_positions' =
             SelectSeq(open_positions,
                       LAMBDA t : \A k \in 1..Len(Closes) : Closes[k].symbol # t.symbol)
        /\ capital' - capital =
             SumInts([k \in 1..Len(Closes) |->
                LET t == Get(open_positions, Closes[k].symbol)
                    v == Closes[k].price * (100 - config.slippage) * t.shares
                IN  v - (v * config.commission) \div 100]) ]_vars

\* C6 witness: a direct close_position has closed a position with both commissions
C6_Witness ==
    /\ pc = "called"
    /\ calls[1].op = "close"
    /\ calls[1].ok
    /\ Len(trades) > 0
    /\ trades[Len(trades)].exit_reason = "manual"
    /\ trades[Len(trades)].commission_paid >
         (trades[Len(trades)].position_value * config.commission) \div 100

\* C7: the entry price recorded is at least the price quoted to open, the exit
\* price recorded at most the price quoted to close, with equality exactly when
\* the slippage rate is 0.
C7_SlippageAgainstHolder ==
    [][ \A k \in 1..Len(NewCalls) :
          LET e == NewCalls[k] IN
          /\ (e.op = "open" /\ e.ok) =>
               /\ HasKey(open_positions', e.symbol)
               /\ Get(open_positions', e.symbol).entry_price >= 100 * e.price
               /\ (Get(open_positions', e.symbol).entry_price = 100 * e.price)
                     <=> (config.slippage = 0)
          /\ (e.op = "close" /\ e.ok) =>
               \E i \in (Len(trades) + 1)..Len(trades') :
                  /\ trades'[i].symbol = e.symbol
                  /\ trades'[i].exit_price <= 100 * e.price
                  /\ (trades'[i].exit_price = 100 * e.price) <=> (config.slippage = 0)
      ]_vars

\* C7 witness: with a slippage rate above 0, a position was closed below the quote
C7_Witness ==
    /\ config.slippage > 0
    /\ Len(trades) > 0
    /\ \E k \in 1..Len(calls) :
         /\ calls[k].op = "close" /\ calls[k].ok
         /\ calls[k].symbol = trades[Len(trades)].symbol
         /\ trades[Len(trades)].exit_price < 100 * calls[k].price
         /\ trades[Len(trades)].entry_price > 100 * 1000

OpenValue == SumInts([i \in 1..Len(open_positions) |-> open_positions[i].position_value])
OpenCommission == SumInts([i \in 1..Len(open_positions) |-> open_positions[i].commission_paid])
RealizedPnl == SumInts([i \in 1..Len(trades) |-> trades[i].pnl])
TrackedCosts ==
    SumInts([i \in 1..Len(trades) |-> trades[i].commission_paid + trades[i].slippage_cost])
    + SumInts([i \in 1..Len(open_positions) |->
                 open_positions[i].commission_paid + open_positions[i].slippage_cost])

\* C8 as stated: cash + position_value of the open trades + pnl of the closed
\* trades differs from initial_capital by no more than the costs the trades record.
C8_StatedConservation ==
    Abs(config.initial_capital - (capital + OpenValue + RealizedPnl)) <= TrackedCosts

\* what cash + open position_value falls short of initial_capital + realized pnl
ConservationGap == (config.initial_capital + RealizedPnl) - (capital + OpenValue)

\* C8: cash + position_value of the open trades equals initial_capital + pnl of the
\* closed trades up to tracked costs: the difference is exactly the commission_paid
\* of the open trades, part of the costs the trades record.
C8_CapitalConservation ==
    /\ ConservationGap = OpenCommission
    /\ ConservationGap >= 0
    /\ ConservationGap <= TrackedCosts

\* C8 witness: trades have been closed and a position is open, its commission paid
C8_Witness ==
    /\ Len(trades) > 0
    /\ Len(open_positions) > 0
    /\ ConservationGap > 0
    /\ RealizedPnl > 0

RuleReasons == {"take_profit", "stop_loss", "time_limit"}

\* C9: within a day no open_position call precedes a rule-based close_position
\* call, no entry or rule-based exit of a day is made once the day's snapshot is
\* taken, and the step that takes the snapshot leaves the ledger as it is.
C9_ExitsBeforeEntriesBeforeSnapshot ==
    [][ /\ \A i, j \in 1..Len(calls') :
             ~ ( /\ i < j
                 /\ calls'[i].op = "open"
                 /\ calls'[j].op = "close"
                 /\ calls'[j].reason \in RuleReasons
                 /\ calls'[i].date = calls'[j].date )
        /\ \A k \in 1..Len(NewCalls) :
             (NewCalls[k].op = "open" \/ NewCalls[k].reason \in RuleReasons) =>
                 \A i \in 1..Len(daily_equity') :
                     daily_equity'[i].date # NewCalls[k].date
        /\ daily_equity' # daily_equity =>
             /\ UNCHANGED <<capital, open_positions, trades>>
             /\ daily_equity'[Len(daily_equity')].date = date
             /\ daily_equity'[Len(daily_equity')].open_positions = Len(open_positions)
      ]_vars

\* C9 witness: with max_positions = 1, the slot an exit freed was filled by an entry
\* of the same day, and the day's snapshot counts the new position
C9_Witness ==
    /\ pc = "end"
    /\ config.max_positions = 1
    /\ Len(calls) = 3
    /\ calls[1].op = "close" /\ calls[1].ok /\ calls[1].reason \in RuleReasons
    /\ calls[2].op = "screen"
    /\ calls[3].op = "open" /\ calls[3].ok
    /\ calls[1].date = calls[3].date
    /\ daily_equity[Len(daily_equity)].date = calls[3].date
    /\ daily_equity[Len(daily_equity)].open_positions = 1

\* C10: on exit evaluation a position with a price is closed with take_profit iff
\* return_pct >= take_profit, else with stop_loss iff return_pct <= -stop_loss, else
\* with time_limit iff days_held >= holding_period_limit, and stays open otherwise.
C10_ExitRuleOrder ==
    [][ pc = "exit" =>
        \A i \in 1..Len(open_positions) :
          LET t  == open_positions[i]
              cp == market[t.symbol]
              \* return_pct = (cp - entry_price) / entry_price, entry_price in sen
              TP == (cp * 100 - t.entry_price) * 100 >= config.take_profit * t.entry_price
              SL == (cp * 100 - t.entry_price) * 100 <= (0 - config.stop_loss) * t.entry_price
              TL == date - t.entry_date >= config.holding_period_limit
              closed(reason) ==
                  \E j \in (Len(trades) + 1)..Len(trades') :
                     /\ trades'[j].symbol = t.symbol
                     /\ trades'[j].exit_reason = reason
                     /\ trades'[j].exit_date = date
              stays == /\ HasKey(open_positions', t.symbol)
                       /\ Get(open_positions', t.symbol) = t
          IN  IF cp = NoData THEN stays
              ELSE /\ closed("take_profit") <=> TP
                   /\ closed("stop_loss") <=> (~TP /\ SL)
                   /\ closed("time_limit") <=> (~TP /\ ~SL /\ TL)
                   /\ stays <=> (~TP /\ ~SL /\ ~TL) ]_vars

\* C10 witness: a position whose take-profit threshold and time limit were met on
\* the same day was closed with take_profit
C10_Witness ==
    \E i \in 1..Len(trades) :
       /\ trades[i].exit_reason = "take_profit"
       /\ trades[i].exit_date - trades[i].entry_date >= config.holding_period_limit

\* the return of a closed trade at its exit quote lies strictly between -stop_loss
\* and +take_profit
InBand(t) ==
    LET quote == t.exit_price \div (100 - config.slippage)
        num   == quote * 100 - t.entry_price
    IN  /\ num * 100 < config.take_profit * t.entry_price
        /\ num * 100 > (0 - config.stop_loss) * t.entry_price

\* the exits of the day at hand have been made
ExitsMade == pc \in {"entry", "mark", "end", "done"}

\* C11: a position whose return stays strictly inside the band is closed with
\* time_limit on the first processed day with days_held >= holding_period_limit and
\* not earlier: a time_limit trade was held for at least the limit, a rule-based
\* close inside the band is a time_limit close, and once the exits of a day are
\* made no open position with a price that day has days_held >= the limit.
C11_TimeLimitOnFirstDueDay ==
    /\ \A i \in 1..Len(trades) :
         /\ trades[i].exit_reason = "time_limit" =>
               /\ trades[i].exit_date - trades[i].entry_date >= config.holding_period_limit
               /\ InBand(trades[i])
         /\ (trades[i].exit_reason \in RuleReasons /\ InBand(trades[i])) =>
               trades[i].exit_reason = "time_limit"
    /\ ExitsMade =>
         \A i \in 1..Len(open_positions) :
            market[open_positions[i].symbol] # NoData =>
               date - open_positions[i].entry_date < config.holding_period_limit

\* C11 witness: a position entered on a Friday with a limit of 3 days was closed
\* with time_limit on the Monday, its return inside the band
C11_Witness ==
    \E i \in 1..Len(trades) :
       /\ trades[i].exit_reason = "time_limit"
       /\ InBand(trades[i])
       /\ config.holding_period_limit = 3
       /\ trades[i].exit_date - trades[i].entry_date = 3

\* the symbols screening returns a qualifying result for at the step at hand, and
\* that are not open when the entries begin
Qualifying ==
    {s \in Symbols : /\ market[s] # NoData
                     /\ score_results(df, DayIndex(date))[s].score >= EntryThreshold
                     /\ ~HasKey(open_positions, s)}

ScoreOf(s) == score_results(df, DayIndex(date))[s].score

\* the symbols in lexical order, and the place of a symbol in it
Lexical == <<"A", "B", "C">>
LexRank(s) == CHOOSE n \in DOMAIN Lexical : Lexical[n] = s

\* s ranks before t: higher score, or the same score and the lexically smaller symbol
RanksBefore(s, t) ==
    \/ ScoreOf(s) > ScoreOf(t)
    \/ ScoreOf(s) = ScoreOf(t) /\ LexRank(s) < LexRank(t)

\* C12: the entry candidates of a day are attempted in descending score order,
\* ties broken by the lexical order of the symbols: when open_position is called
\* for a candidate, every candidate that ranks before it has been attempted.
C12_RankOrderLexicalTies ==
    [][ pc = "entry" =>
        \A k \in 1..Len(NewCalls) :
           NewCalls[k].op = "open" =>
              \A s \in Qualifying :
                 RanksBefore(s, NewCalls[k].symbol) =>
                    \E j \in 1..(k - 1) : NewCalls[j].symbol = s ]_vars

\* C13: open_position is attempted for every qualifying candidate in rank order
\* until the capacity is exhausted or the candidates run out, a failed attempt
\* being skipped without retry: no candidate is attempted twice in a day, and when
\* a slot is still free after the entries of a day, every qualifying candidate has
\* been attempted.
C13_NoCandidateLeftUnattempted ==
    [][ pc = "entry" =>
        /\ \A j, k \in 1..Len(NewCalls) :
              NewCalls[j].symbol = NewCalls[k].symbol => j = k
        /\ Len(open_positions') < config.max_positions =>
              \A s \in Qualifying :
                 \E k \in 1..Len(NewCalls) :
                    NewCalls[k].op = "open" /\ NewCalls[k].symbol = s ]_vars

\* C14: every Trade the backtest opens has an entry score >= 70, and screen_stocks
\* is called for entries only when can_open_position() is true: an open_position
\* call of process_day has a score >= 70 and follows the day's screening, whose
\* call finds a slot free.
C14_EntriesAtOrAboveThreshold ==
    [][ /\ \A i \in 1..Len(open_positions') : open_positions'[i].score >= EntryThreshold
        /\ \A i \in 1..Len(trades') : trades'[i].score >= EntryThreshold
        /\ \A k \in 1..Len(NewCalls) :
             /\ NewCalls[k].op = "open" =>
                  /\ NewCalls[k].score >= EntryThreshold
                  /\ \E j \in 1..(k - 1) : NewCalls[j].op = "screen"
             /\ NewCalls[k].op = "screen" =>
                  /\ pc = "entry"
                  /\ can_open_position(Ledger)
                  /\ Len(open_positions) < config.max_positions ]_vars

\* C14 witness: a day's screening found a candidate of score 60 with a slot free,
\* and the slot is still free after the entries
C14_Witness ==
    /\ pc = "mark"
    /\ \E k \in 1..Len(calls) : calls[k].op = "screen"
    /\ \A k \in 1..Len(calls) : calls[k].op # "open"
    /\ Len(open_positions) < config.max_positions
    /\ \E s \in Symbols : market[s] # NoData /\ ScoreOf(s) = 60

\* the business days process_day has returned for
ProcessedDays ==
    {d \in business_days : d < date \/ (d = date /\ pc \in {"end", "done"})}

\* C15: daily_equity is append-only and holds exactly one snapshot per business day
\* processed, in strictly increasing date order: no step removes or rewrites a
\* snapshot, and once run() is past its last day every business day of the range
\* has its one snapshot.
C15_OneSnapshotPerDay ==
    [][ /\ Len(daily_equity') >= Len(daily_equity)
        /\ SubSeq(daily_equity', 1, Len(daily_equity)) = daily_equity
        /\ Len(daily_equity') <= Len(daily_equity) + 1
        /\ \A i, j \in 1..Len(daily_equity') :
              i < j => daily_equity'[i].date < daily_equity'[j].date
        /\ {daily_equity'[i].date : i \in 1..Len(daily_equity')} = ProcessedDays'
        /\ pc' \in {"end", "done"} =>
              /\ Len(daily_equity') = Cardinality(business_days)
              /\ {daily_equity'[i].date : i \in 1..Len(daily_equity')} = business_days
      ]_vars

\* C15 witness: run() over a Friday and the Monday after it has returned, with the
\* two snapshots of these days and none for the weekend
C15_Witness ==
    /\ pc = "done"
    /\ config.start_date = 4
    /\ Len(daily_equity) >= 2
    /\ daily_equity[1].date = 4
    /\ daily_equity[2].date = 7

\* the current price of a symbol on the k-th day as the market has it: the close
\* of its last bar at or before that day, whether or not a fetch succeeds
MarketPrice(symbol, k) ==
    LET h == {j \in 1..k : df[symbol][j].kind = "bar"}
    IN  IF h = {} THEN NoData ELSE df[symbol][Max(h)].close

\* C16: every daily snapshot has total_value = cash + the sum, over all positions
\* open at the end of that day, of the current price of the symbol on that date
\* times the shares, with cash the engine's capital at that moment and
\* open_positions the number of open positions.
C16_SnapshotValuesEveryPosition ==
    [][ daily_equity' # daily_equity =>
        LET snap == daily_equity'[Len(daily_equity')]
        IN  /\ snap.cash = capital'
            /\ snap.open_positions = Len(open_positions')
            /\ snap.total_value =
                  capital' + SumInts([i \in 1..Len(open_positions') |->
                                MarketPrice(open_positions'[i].symbol, DayIndex(snap.date))
                                  * 100 * open_positions'[i].shares]) ]_vars

\* C17: when run() returns no position is open: every position still open after
\* the last day is closed at the final available price with reason backtest_end,
\* is in the result's trade list and is counted in total_trades and in the
\* win/loss statistics.
C17_NoPositionOpenAtReturn ==
    [][ (pc = "end" /\ pc' = "done") =>
        LET result == run_results'[Len(run_results')]
        IN  /\ open_positions' = <<>>
            /\ \A i \in 1..Len(open_positions) :
                  \E j \in (Len(trades) + 1)..Len(trades') :
                     /\ trades'[j].symbol = open_positions[i].symbol
                     /\ trades'[j].exit_reason = "backtest_end"
                     /\ trades'[j].exit_date = config.end_date
                     /\ trades'[j].exit_price =
                          MarketPrice(trades'[j].symbol, DayIndex(config.end_date))
                            * (100 - config.slippage)
            /\ result.trades = trades'
            /\ result.total_trades = Len(trades')
            /\ result.winning_trades = Cardinality({j \in 1..Len(trades') : trades'[j].pnl > 0})
            /\ result.losing_trades = Cardinality({j \in 1..Len(trades') : trades'[j].pnl < 0})
      ]_vars

\* C18: a symbol whose market data is unavailable on a day is skipped for the exit
\* and the entry evaluation of that day: an open position in it is neither closed
\* nor altered, and open_position is not called for it.
C18_UnavailableSymbolSkipped ==
    [][ \A s \in Symbols :
          df[s][DayIndex(date)].kind # "bar" =>
             /\ (pc = "exit" /\ HasKey(open_positions, s)) =>
                   /\ HasKey(open_positions', s)
                   /\ Get(open_positions', s) = Get(open_positions, s)
             /\ pc = "entry" =>
                   \A k \in 1..Len(NewCalls) : NewCalls[k].symbol # s ]_vars

\* the markets that differ from df in at most one cell dated after the n-th day
FutureVariants(n) ==
    {df} \cup { [df EXCEPT ![s][j] = c] : s \in Traded, j \in (n + 1)..MaxDays, c \in Cells }

\* C19: no look-ahead: the ledger and the snapshots at the end of a simulated day
\* are those run() reaches in any market with the same bars up to that day;
\* changing a bar dated after the day changes neither.
C19_NoLookAhead ==
    (pc = first_step \/ pc = "end") =>
        LET n == Len(daily_equity)
        IN  \A alt \in FutureVariants(n) :
               run_days(alt, n) = [L |-> Ledger, de |-> daily_equity]

\* C19 witness: a day ended with a position bought at the day's close, and the next
\* day's bar of that symbol has another close
C19_Witness ==
    /\ pc = first_step
    /\ Len(daily_equity) = 1
    /\ Len(open_positions) = 1
    /\ LET t == open_positions[1]
       IN  /\ df[t.symbol][2].kind = "bar"
           /\ df[t.symbol][2].close * (100 + config.slippage) # t.entry_price
           /\ daily_equity[1].total_value = capital + df[t.symbol][1].close * 100 * t.shares

\* C20: with the same configuration and the same market data, every run() returns
\* the same BacktestResult (trades, daily equity series, statistics), a second
\* run() on the engine included.
C20_SameResultEveryRun ==
    \A i \in 1..Len(run_results) : run_results[i] = run_results[1]

\* no symbol has, on any day of the range, a screening result that reaches the entry
\* score threshold
NoQualifyingCandidate ==
    \A k \in 1..MaxDays, s \in Symbols : latest_data(df, s, k).score < EntryThreshold

\* C21: if no candidate ever reaches the entry score threshold during the run, the
\* result has total_trades = 0, win_rate = 0, profit_factor = 0, total_return = 0
\* and final_capital = initial_capital, and every daily snapshot has cash =
\* total_value = initial_capital with 0 open positions.
C21_ZeroTradesBoundary ==
    NoQualifyingCandidate =>
       /\ \A i \in 1..Len(daily_equity) :
             /\ daily_equity[i].cash = config.initial_capital
             /\ daily_equity[i].total_value = config.initial_capital
             /\ daily_equity[i].open_positions = 0
       /\ \A i \in 1..Len(run_results) :
             /\ run_results[i].total_trades = 0
             /\ run_results[i].trades = <<>>
             /\ run_results[i].win_rate.num = 0
             /\ run_results[i].profit_factor.num = 0
             /\ run_results[i].total_return.num = 0
             /\ run_results[i].final_capital = config.initial_capital
             /\ run_results[i].initial_capital = config.initial_capital

\* C21 witness: run() has returned from a range in which screening found a
\* candidate, of score 60, and none that reached the threshold
C21_Witness ==
    /\ pc = "done"
    /\ NoQualifyingCandidate
    /\ Len(run_results) = 1
    /\ Len(daily_equity) = Cardinality(business_days)
    /\ \E k \in 1..MaxDays, s \in Symbols : latest_data(df, s, k).score = 60

InvalidConfiguration ==
    config.start_date > config.end_date \/ config.initial_capital <= 0

\* C22: an invalid configuration (start_date > end_date, or initial_capital <= 0)
\* makes run() end before the first simulated day is processed: no step of a day is
\* made, no snapshot is taken, no position is opened and no BacktestResult is
\* returned.
C22_InvalidConfigurationIsFatal ==
    InvalidConfiguration =>
       /\ pc \notin {"entry", "mark", "done"}
       /\ daily_equity = <<>>
       /\ open_positions = <<>>
       /\ trades = <<>>
       /\ run_results = <<>>

\* no symbol of the universe has a bar on any day of the range
NoMarketData == \A s \in Symbols, k \in 1..MaxDays : df[s][k].kind # "bar"

\* C23: a run either completes through end_date with a complete result or ends in a
\* fatal error: when no symbol of the universe has any market data run() returns no
\* BacktestResult, and a result that is returned has the snapshots of every
\* business day through end_date and all the trades.
C23_FatalErrorWithoutData ==
    /\ NoMarketData => (pc # "done" /\ run_results = <<>>)
    /\ pc = "done" =>
          LET result == run_results[Len(run_results)]
          IN  /\ {result.daily_equity[i].date : i \in 1..Len(result.daily_equity)} = business_days
              /\ result.trades = trades
              /\ result.total_trades = Len(trades)

\* the trades of a history that won, and that lost, and the sum of the pnl of some
Winners(ts) == {i \in 1..Len(ts) : ts[i].pnl > 0}
Losers(ts) == {i \in 1..Len(ts) : ts[i].pnl < 0}
RECURSIVE PnlOf(_, _)
PnlOf(ts, I) ==
    IF I = {} THEN 0
    ELSE LET i == CHOOSE x \in I : TRUE IN ts[i].pnl + PnlOf(ts, I \ {i})

\* C24: degenerate statistics are guarded defaults, never a division by zero: for
\* every trade history and equity series calculate_results yields win_rate = 0
\* without trades, profit_factor = 0 without losing trades, sharpe_ratio = 0 when
\* volatility is 0 and annualized_return = 0 when the elapsed days are 0; otherwise
\* win_rate is the share (in percent) of the trades with pnl > 0 among all trades
\* and profit_factor = sum(winning pnl) / |sum(losing pnl)|.
C24_GuardedStatistics ==
    \A n \in 1..Len(run_results) :
       LET r  == run_results[n]
           ts == r.trades
       IN  /\ r.win_rate.den # 0 /\ r.profit_factor.den # 0 /\ r.total_return.den # 0
           /\ Len(ts) = 0 => r.win_rate.num = 0
           /\ Losers(ts) = {} => r.profit_factor.num = 0
           /\ r.volatility = 0 => r.sharpe_ratio = 0
           /\ config.end_date - config.start_date = 0 => r.annualized_return = 0
           /\ Len(ts) > 0 =>
                 r.win_rate.num * Len(ts) = 100 * Cardinality(Winners(ts)) * r.win_rate.den
           /\ Losers(ts) # {} =>
                 r.profit_factor.num * Abs(PnlOf(ts, Losers(ts)))
                    = PnlOf(ts, Winners(ts)) * r.profit_factor.den

\* floor(capital * position_size / price / 100) * 100, capital in sen, position_size
\* in percent, price in yen
FlooredLots(price) ==
    ((capital * config.position_size) \div (100 * 100 * price * LotSize)) * LotSize

\* C25: position_size(price) returns a non-negative multiple of the lot size 100
\* equal to floor(capital * position_size / price / 100) * 100, and 0 when the
\* capital is insufficient for one lot at that price; every recorded Trade has
\* shares that is a positive multiple of 100.
C25_PositionSizeFloorsToLots ==
    /\ \A price \in Prices :
          LET shares == calculate_position_size(Ledger, price)
          IN  /\ shares >= 0
              /\ shares % LotSize = 0
              /\ shares = FlooredLots(price)
              /\ capital < price * 100 * LotSize => shares = 0
    /\ \A i \in 1..Len(open_positions) :
          open_positions[i].shares > 0 /\ open_positions[i].shares % LotSize = 0
    /\ \A i \in 1..Len(trades) :
          trades[i].shares > 0 /\ trades[i].shares % LotSize = 0

\* the sum of the bucket contributions of a result, in tenths of a point
BucketSum(r) ==
    r.score_breakdown.volume_score + r.score_breakdown.gap_score
    + r.score_breakdown.technical_score + r.score_breakdown.news_score
    + r.score_breakdown.social_score + r.score_breakdown.sector_score

Clamp(x, lo, hi) == IF x < lo THEN lo ELSE IF x > hi THEN hi ELSE x

\* every feature bucket of a result contributes zero
NoContribution(r) ==
    /\ r.score_breakdown.volume_score = 0 /\ r.score_breakdown.gap_score = 0
    /\ r.score_breakdown.technical_score = 0 /\ r.score_breakdown.news_score = 0
    /\ r.score_breakdown.social_score = 0 /\ r.score_breakdown.sector_score = 0

\* C26: the scoring function returns total_score = clamp(50 + sum of the bucket
\* contributions, 0, 100): it starts from a base score of 50, so stock_data in
\* which every bucket contributes zero scores exactly 50, and the result is within
\* [0, 100] for any weights and inputs.
C26_BaseScoreFifty ==
    \A i \in 1..Len(score_result) :
       LET r == score_result[i]
       IN  /\ r.total_score = Clamp(500 + BucketSum(r), 0, 1000)
           /\ NoContribution(r) => r.total_score = 500
           /\ r.total_score >= 0 /\ r.total_score <= 1000

\* what the open trades have cost: position_value and entry commission of each
OpenCost ==
    SumInts([i \in 1..Len(open_positions) |->
               open_positions[i].position_value + open_positions[i].commission_paid])

\* C27: exact cash reconciliation: in every reachable state capital =
\* initial_capital + the pnl of the closed trades - the position_value and entry
\* commission of the open trades; so with no position open, and in the result of a
\* fully liquidated run, the capital is initial_capital + the pnl of all trades.
C27_CashReconciliation ==
    /\ capital = config.initial_capital + RealizedPnl - OpenCost
    /\ open_positions = <<>> => capital = config.initial_capital + RealizedPnl
    /\ (pc = "done" /\ open_positions = <<>>) =>
          LET result == run_results[Len(run_results)]
          IN  result.final_capital =
                 result.initial_capital
                 + SumInts([i \in 1..Len(result.trades) |-> result.trades[i].pnl])

\* C27 witness: run() has returned after a day that ended with a position open and
\* a liquidation that closed it, a trade having been closed before, and the capital
\* is not the initial one
C27_Witness ==
    /\ pc = "done"
    /\ open_positions = <<>>
    /\ Len(trades) >= 2
    /\ trades[Len(trades)].exit_reason = "backtest_end"
    /\ trades[1].exit_reason # "backtest_end"
    /\ daily_equity[Len(daily_equity)].open_positions > 0
    /\ run_results[Len(run_results)].final_capital # config.initial_capital

\* C28: a position is never closed by a rule on the day it was opened: every closed
\* Trade with exit_reason take_profit, stop_loss or time_limit has exit_date
\* strictly later than entry_date; only backtest_end trades can have exit_date
\* equal to entry_date.
C28_NoRuleExitOnEntryDay ==
    \A i \in 1..Len(trades) :
       /\ trades[i].exit_date >= trades[i].entry_date
       /\ trades[i].exit_reason \in RuleReasons => trades[i].exit_date > trades[i].entry_date
       /\ trades[i].exit_date = trades[i].entry_date => trades[i].exit_reason = "backtest_end"

\* C28 witness: a position opened on the last day was liquidated that day, after a
\* position opened earlier had been closed by a rule on a later day
C28_Witness ==
    \E i, j \in 1..Len(trades) :
       /\ trades[i].exit_reason \in RuleReasons
       /\ trades[i].exit_date > trades[i].entry_date
       /\ trades[j].exit_reason = "backtest_end"
       /\ trades[j].exit_date = trades[j].entry_date

\* symbol s was closed in the exit step of the day at hand
ClosedToday(s) ==
    \E k \in 1..Len(calls) :
       /\ calls[k].op = "close" /\ calls[k].ok
       /\ calls[k].symbol = s /\ calls[k].date = date

\* the ranked candidates screen_stocks returns on the day at hand
Candidates == screen_stocks(date, universe, market, score_results(df, DayIndex(date)))

\* C29: a symbol closed in the exit step of day d is eligible for entry again in the
\* entry step of the same day: if it is among the ranked candidates with score >=
\* 70, then it is open again after the entries, with entry_date = d next to its
\* Trade closed with exit_date = d, unless the capacity was used up or the cash
\* did not allow its entry.
C29_ReentryOnExitDay ==
    [][ pc = "entry" =>
        \A s \in Symbols :
           ( /\ ClosedToday(s)
             /\ \E i \in 1..Len(Candidates) :
                   Candidates[i].symbol = s /\ Candidates[i].score >= EntryThreshold )
           => \/ /\ HasKey(open_positions', s)
                 /\ Get(open_positions', s).entry_date = date
                 /\ \E j \in 1..Len(trades') :
                       trades'[j].symbol = s /\ trades'[j].exit_date = date
              \/ /\ Len(open_positions') >= config.max_positions
                 /\ ~HasKey(open_positions', s)
              \/ \E k \in 1..Len(NewCalls) :
                    /\ NewCalls[k].op = "open" /\ ~NewCalls[k].ok
                    /\ NewCalls[k].symbol = s ]_vars

\* C29 witness: after the entries of a day a symbol is open with entry_date = that
\* day, and the trade history holds a Trade of it closed by a rule that day
C29_Witness ==
    /\ pc = "mark"
    /\ \E s \in Symbols :
          /\ HasKey(open_positions, s)
          /\ Get(open_positions, s).entry_date = date
          /\ \E j \in 1..Len(trades) :
                /\ trades[j].symbol = s
                /\ trades[j].exit_date = date
                /\ trades[j].exit_reason \in RuleReasons

\* the threads that are in an iteration of the given loop
InIteration(pcs, target) == {t \in Threads : t.target = target /\ pcs[t] = "body"}

\* C30: RealtimeMonitor runs at most one price-update loop, one alert-processing
\* loop and one trailing-stop loop at any time, whatever the interleaving of
\* start_monitoring and stop_monitoring calls: no two threads are in an iteration
\* of the same loop at once, and start_monitoring while is_running starts no
\* thread.
C30_OneThreadPerLoop ==
    [][ /\ \A target \in Loops : Cardinality(InIteration(thread_pc', target)) <= 1
        /\ (is_running /\ start_calls' = start_calls + 1) =>
              (threads' = threads /\ thread_pc' = thread_pc) ]_vars

====
